---- MODULE Spec2Model ----
(***************************************************************************)
(* Outline VPN key bot: the conversational state machine, the key          *)
(* lifecycle handlers and the reconciliation pass of key_manager.py,       *)
(* database.py, outline_api.py and utils.py.                               *)
(*                                                                         *)
(* Byte quantities exceed 32 bits, so a byte count b is kept as the pair   *)
(* <<b \div 10^6, b % 10^6>>: 5,000,000,000 is <<5000, 0>> and             *)
(* 5,368,709,120 is <<5368, 709120>>.                                      *)
(***************************************************************************)
EXTENDS Integers, Sequences, FiniteSets, TLC

\* ------------------------------------------------------------- bounds
\* keys the remote server issues in Spec (ids "0" .. MaxKeys - 1)
MaxKeys == 2
\* half-day clock ticks in Spec
MaxTicks == 1

\* ------------------------------------------------------ configuration
ADMIN_IDS == {1}
MAX_KEYS_PER_USER == 1
MAX_KEYS_PER_ADMIN == 10
\* chat actors: 1 is a configured administrator, 2 a standard user
Actors == {1, 2}
\* texts an actor may send
Texts == {"home", "0", "5", "0.0000000001", "01.01.2026", "03.01.2026", "31.02.2026"}
\* texts an actor sends as a key name
NameTexts == {"home"}
\* message ids of the bot's prompts
MessageIds == {1}

\* ------------------------------------------------- byte quantities
Limb == 1000 * 1000
Giga == 1000000000
GiB == 1024 * 1024 * 1024
ZeroBytes == <<0, 0>>

\* g * m as a byte quantity, for 0 <= g <= 2000 and 0 <= m < 2^31
BigMulNat(g, m) ==
    LET lo == g * (m % Limb)
    IN  <<g * (m \div Limb) + (lo \div Limb), lo % Limb>>

BigPositive(b) == b[1] > 0 \/ b[2] > 0

RECURSIVE Pow10(_)
Pow10(n) == IF n = 0 THEN 1 ELSE 10 * Pow10(n - 1)

\* ------------------------------------------------------ text parsing
\* largest whole number the decimal reader below recognises
MaxWhole == 120

\* float(text): a decimal mant * 10^exp, or ValueError (ok = FALSE)
float(t) ==
    IF \E n \in 0..MaxWhole : ToString(n) = t
    THEN [ok |-> TRUE, mant |-> CHOOSE n \in 0..MaxWhole : ToString(n) = t, exp |-> 0]
    ELSE IF t = "0.0000000001" THEN [ok |-> TRUE, mant |-> 1, exp |-> -10]
    ELSE IF t = "0.5" THEN [ok |-> TRUE, mant |-> 5, exp |-> -1]
    ELSE IF t = "-1" THEN [ok |-> TRUE, mant |-> -1, exp |-> 0]
    ELSE [ok |-> FALSE, mant |-> 0, exp |-> 0]

\* int(limit_gb * 1000000000) for limit_gb > 0: truncation toward zero
limit_bytes_of(f) ==
    IF f.exp >= 0 THEN BigMulNat(f.mant * Pow10(f.exp), Giga)
    ELSE IF -f.exp <= 9 THEN BigMulNat(f.mant, Pow10(9 + f.exp))
    ELSE <<0, f.mant \div Pow10(-f.exp - 9)>>

\* utils.gb_to_bytes for a whole number of gigabytes
gb_to_bytes(gb) == BigMulNat(gb, GiB)

\* map(int, text.strip().split('.')): the integer parts, or ValueError
split_ints(t) ==
    CASE t = "01.01.2026" -> [ok |-> TRUE, parts |-> <<1, 1, 2026>>]
      [] t = "02.01.2026" -> [ok |-> TRUE, parts |-> <<2, 1, 2026>>]
      [] t = "03.01.2026" -> [ok |-> TRUE, parts |-> <<3, 1, 2026>>]
      [] t = "31.02.2026" -> [ok |-> TRUE, parts |-> <<31, 2, 2026>>]
      [] t = "0.0000000001" -> [ok |-> TRUE, parts |-> <<0, 1>>]
      [] t = "0.5" -> [ok |-> TRUE, parts |-> <<0, 5>>]
      [] \E n \in 0..MaxWhole : ToString(n) = t ->
            [ok |-> TRUE, parts |-> <<CHOOSE n \in 0..MaxWhole : ToString(n) = t>>]
      [] OTHER -> [ok |-> FALSE, parts |-> <<>>]

IsLeap(y) == (y % 4 = 0 /\ y % 100 # 0) \/ y % 400 = 0

DaysInMonth(y, m) ==
    IF m = 2 THEN (IF IsLeap(y) THEN 29 ELSE 28)
    ELSE IF m \in {4, 6, 9, 11} THEN 30 ELSE 31

\* datetime.datetime(year, month, day) raises ValueError unless this holds
ValidDate(y, m, d) ==
    /\ y >= 1 /\ y <= 9999
    /\ m >= 1 /\ m <= 12
    /\ d >= 1 /\ d <= DaysInMonth(y, m)

LeapsBefore(y) == ((y - 1) \div 4) - ((y - 1) \div 100) + ((y - 1) \div 400)

RECURSIVE DaysBeforeMonth(_, _)
DaysBeforeMonth(y, m) ==
    IF m = 1 THEN 0 ELSE DaysBeforeMonth(y, m - 1) + DaysInMonth(y, m - 1)

\* int(datetime(y, m, d).timestamp()): seconds since 01.01.1970 (UTC clock)
date_timestamp(y, m, d) ==
    ((y - 1970) * 365 + LeapsBefore(y) - LeapsBefore(1970)
        + DaysBeforeMonth(y, m) + (d - 1)) * 86400

\* the bot starts on 02.01.2026 at noon
StartInstant == date_timestamp(2026, 1, 2) + 43200
HalfDay == 12 * 3600

\* ------------------------------------------------------------- state
VARIABLES
    users,        \* table users: user_id -> row
    keys,         \* table access_keys: the rows in rowid order
    remote,       \* the Outline server's keys: id -> [name, limit]
    nextId,       \* the Outline server's id counter
    user_states,  \* key_manager.user_states: actor -> pending flow
    now,          \* the clock, in seconds
    last,         \* the event handled last
    replies,      \* the message keys the last handler sent
    calls,        \* the requests the last handler sent to the server, mutating one first
    sync,         \* the last reconciliation pass: server_keys, db_keys, outcome
    view,         \* the last key view: what was read from the server, and the traffic line
    threads       \* the bot's worker threads: what each is running, and where

vars == <<users, keys, remote, nextId, user_states, now, last, replies, calls, sync, view, threads>>

NoEvent == [h |-> "", u |-> 0, k |-> "", t |-> ""]
\* the worker threads of the bot (telebot's pool has two)
Workers == {1, 2}
\* a worker with no handler to run
IdleThread ==
    [pc |-> "idle", u |-> 0, t |-> "", key_data |-> <<>>,
     server_keys |-> <<>>, db_keys |-> <<>>]

\* no pass ran, or GET /access-keys failed
NoListing ==
    [ok |-> FALSE, server_keys |-> <<>>, db_keys |-> <<>>, completed |-> FALSE,
     rows |-> <<>>]

\* a usage report that could not be fetched
Failed == [ok |-> FALSE, byId |-> {}]
\* a key read (GET /access-keys/{id}) that failed
FailedRead == [ok |-> FALSE, usageBytes |-> <<>>, usage |-> <<>>]
\* no key view was built by the last handler
NoView ==
    [shown |-> FALSE, readOk |-> FALSE, transfer |-> Failed, metrics |-> Failed,
     key_info |-> FailedRead, data_usage |-> ZeroBytes, line |-> <<>>]

Init ==
    /\ users = <<>>
    /\ keys = <<>>
    /\ remote = <<>>
    /\ nextId = 0
    /\ user_states = <<>>
    /\ now = StartInstant
    /\ last = NoEvent
    /\ replies = <<>>
    /\ calls = <<>>
    /\ sync = NoListing
    /\ view = NoView
    /\ threads = [w \in Workers |-> IdleThread]

\* ------------------------------------------------- sequences, tables
RECURSIVE SeqMap2(_, _, _)
\* the rows of ks, each row with key_id k replaced by upd
SeqMap2(ks, k, upd) ==
    IF ks = <<>> THEN <<>>
    ELSE <<IF Head(ks).key_id = k THEN upd @@ Head(ks) ELSE Head(ks)>>
            \o SeqMap2(Tail(ks), k, upd)

HasRow(ks, k) == \E i \in DOMAIN ks : ks[i].key_id = k

RowsOf(ks, k) == {i \in DOMAIN ks : ks[i].key_id = k}

\* attribute lookup on the Database instance: the methods class Database defines
DatabaseMethods ==
    {"save_user", "get_user", "set_admin_status", "block_user", "is_user_blocked",
     "is_admin", "log_activity", "save_access_key", "update_key_payment",
     "update_key_limit", "get_user_keys", "get_all_keys", "get_key_owner",
     "delete_key", "count_user_keys", "get_all_users", "sync_keys_with_server"}

\* db.<name>(...) raises AttributeError unless the class defines <name>
HasMethod(name) == name \in DatabaseMethods

\* int(key_id): defined for a decimal id, ValueError otherwise
IsNumeric(id) == \E i \in 0..MaxWhole : ToString(i) = id
ToInt(id) == CHOOSE i \in 0..MaxWhole : ToString(i) = id

\* ---------------------------------------------------------- database.py
NewUser(name) == [username |-> name, is_admin |-> FALSE, is_blocked |-> FALSE]

\* Database.save_user: insert the row, or refresh the profile fields of an
\* existing one (is_admin and is_blocked are kept)
save_user(us, u, name) ==
    IF u \in DOMAIN us
    THEN [us EXCEPT ![u].username = name]
    ELSE (u :> NewUser(name)) @@ us

is_user_blocked(us, u) == u \in DOMAIN us /\ us[u].is_blocked

is_admin(us, u) == u \in ADMIN_IDS \/ (u \in DOMAIN us /\ us[u].is_admin)

count_user_keys(ks, u) == Cardinality({i \in DOMAIN ks : ks[i].user_id = u})

\* key_manager.get_key_by_id: the first row with this key_id, if any
get_key_by_id(ks, k) ==
    IF HasRow(ks, k)
    THEN ks[CHOOSE i \in RowsOf(ks, k) : \A j \in RowsOf(ks, k) : i <= j]
    ELSE [key_id |-> ""]

\* a save that files the new row under the owner identity reconciliation
\* would give it, not under the actor
save_access_key_placeholder(ks, u, key_data, t) ==
    Append(ks,
        [key_id |-> key_data.id, user_id |-> -ToInt(key_data.id), name |-> key_data.name,
         access_url |-> key_data.accessUrl, data_limit |-> ZeroBytes,
         paid_until |-> 0, created_at |-> t])

\* Database.save_access_key with the default paid_until = None, data_limit = 0
save_access_key(ks, u, key_data, t) ==
    IF HasRow(ks, key_data.id)
    THEN SeqMap2(ks, key_data.id,
            [user_id |-> u, name |-> key_data.name, access_url |-> key_data.accessUrl,
             data_limit |-> ZeroBytes, paid_until |-> 0])
    ELSE Append(ks,
            [key_id |-> key_data.id, user_id |-> u, name |-> key_data.name,
             access_url |-> key_data.accessUrl, data_limit |-> ZeroBytes,
             paid_until |-> 0, created_at |-> t])

\* Database.update_key_payment
update_key_payment(ks, k, paid_until) == SeqMap2(ks, k, [paid_until |-> paid_until])

\* Database.update_key_limit
update_key_limit(ks, k, data_limit) == SeqMap2(ks, k, [data_limit |-> data_limit])

\* Database.delete_key
delete_key(ks, k) == SelectSeq(ks, LAMBDA r : r.key_id # k)

\* -------------------------------------------------------- outline_api.py
\* the server's connection descriptor of key id: opaque, used verbatim
AccessUrl(id) == "ss://" \o id

\* ids the server's operator chooses (PUT /access-keys/{id}) rather than the
\* server's counter
CustomIds == {"vip"}

\* the operator-named keys made when the server's counter stood at s
CustomAt(rem, s) ==
    LET made == {k \in CustomIds \cap DOMAIN rem : rem[k].slot = s}
    IN  IF made = {} THEN <<>> ELSE <<CHOOSE k \in made : TRUE>>

\* the ids of the server's keys in the order they were made: the counter
\* values below n, and each operator-named key at the place it was made
RECURSIVE IdSeq(_, _)
IdSeq(rem, n) ==
    IF n = 0 THEN CustomAt(rem, 0)
    ELSE IdSeq(rem, n - 1)
            \o (IF ToString(n - 1) \in DOMAIN rem THEN <<ToString(n - 1)>> ELSE <<>>)
            \o CustomAt(rem, n)

\* OutlineAPI.create_access_key: the server's answer to POST /access-keys
create_access_key(name, n) ==
    [id |-> ToString(n), name |-> name, accessUrl |-> AccessUrl(ToString(n))]

\* the server's state once it has served POST /access-keys
RemoteCreate(rem, name, n) == (ToString(n) :> [name |-> name, limit |-> <<>>]) @@ rem

\* the server's state once it has served DELETE /access-keys/{id}
RemoteDelete(rem, id) == [k \in DOMAIN rem \ {id} |-> rem[k]]

\* OutlineAPI.get_access_keys: the listing, each key with the dataLimit of its
\* detail read when that read succeeded and reported one. inList says whether
\* the listing itself carries dataLimit; detailOk holds the ids whose detail
\* read succeeded.
get_access_keys(rem, n, inList, detailOk) ==
    LET ids == IdSeq(rem, n)
        entry(id) ==
            [id |-> id, name |-> rem[id].name, accessUrl |-> AccessUrl(id),
             dataLimit |-> IF id \in detailOk /\ rem[id].limit # <<>>
                           THEN rem[id].limit
                           ELSE IF inList THEN rem[id].limit ELSE <<>>]
    IN  [i \in DOMAIN ids |-> entry(ids[i])]

\* a client that sends every limit, 0 included, as a PUT
limit_request_put(limit_bytes) == "PUT_limit"

\* the mutating request of OutlineAPI.set_data_limit
limit_request(limit_bytes) ==
    IF BigPositive(limit_bytes) THEN "PUT_limit" ELSE "DELETE_limit"

\* a client that sends a failed mutating request a second time
after_request_retry(request, read) == IF request.ok THEN <<read>> ELSE <<request>>

\* what set_data_limit sends after its mutating request: the verifying read
\* when the request went through, nothing when it raised
after_request(request, read) == IF request.ok THEN <<read>> ELSE <<>>

\* OutlineAPI.set_data_limit: the request sent (PUT for a limit > 0, DELETE
\* otherwise), the server's state afterwards and the boolean returned.
\* reqOk: the mutating request succeeded; readOk: the verifying read did;
\* readBack: <<>>, or <<lim>> when the server's operator set the key's limit
\* to lim between the request and the verifying read.
set_data_limit(rem, id, limit_bytes, reqOk, readOk, readBack) ==
    LET op == limit_request(limit_bytes)
        sent == reqOk /\ id \in DOMAIN rem
        rem1 == IF ~sent THEN rem
                ELSE IF BigPositive(limit_bytes)
                     THEN [rem EXCEPT ![id].limit = <<limit_bytes>>]
                     ELSE [rem EXCEPT ![id].limit = <<>>]
        rem2 == IF sent /\ readBack # <<>>
                THEN [rem1 EXCEPT ![id].limit = readBack[1]]
                ELSE rem1
        seen == IF sent /\ readOk /\ rem2[id].limit # <<>>
                THEN rem2[id].limit[1] ELSE ZeroBytes
        verified ==
            IF ~readOk THEN TRUE
            ELSE IF BigPositive(limit_bytes)
                 THEN rem2[id].limit # <<>> /\ rem2[id].limit[1] = limit_bytes
                 ELSE rem2[id].limit = <<>>
        request == [op |-> op, key |-> id, name |-> "", bytes |-> limit_bytes, ok |-> sent]
    IN  [request |-> request,
         read |-> after_request(request,
                    [op |-> "GET_key", key |-> id, name |-> "", bytes |-> seen, ok |-> readOk]),
         remote |-> rem2,
         result |-> sent /\ verified]

\* the entry of key_id in the bytesTransferredByUserId object of a report
ById(report, key_id) == {p \in report.byId : p[1] = key_id}

\* a reader that asks /metrics before /metrics/transfer
get_key_data_usage_legacy_first(key_id, transfer, metrics, key_info) ==
    IF metrics.ok /\ ById(metrics, key_id) # {}
    THEN (CHOOSE p \in ById(metrics, key_id) : TRUE)[2]
    ELSE IF transfer.ok /\ ById(transfer, key_id) # {}
    THEN (CHOOSE p \in ById(transfer, key_id) : TRUE)[2]
    ELSE IF key_info.ok /\ key_info.usageBytes # <<>>
    THEN key_info.usageBytes[1]
    ELSE IF key_info.ok /\ key_info.usage # <<>>
    THEN key_info.usage[1]
    ELSE ZeroBytes

\* OutlineAPI.get_key_data_usage: /metrics/transfer, then /metrics, then the
\* key's own record (usageBytes, then usage.bytes), then 0
get_key_data_usage(key_id, transfer, metrics, key_info) ==
    IF transfer.ok /\ ById(transfer, key_id) # {}
    THEN (CHOOSE p \in ById(transfer, key_id) : TRUE)[2]
    ELSE IF metrics.ok /\ ById(metrics, key_id) # {}
    THEN (CHOOSE p \in ById(metrics, key_id) : TRUE)[2]
    ELSE IF key_info.ok /\ key_info.usageBytes # <<>>
    THEN key_info.usageBytes[1]
    ELSE IF key_info.ok /\ key_info.usage # <<>>
    THEN key_info.usage[1]
    ELSE ZeroBytes

\* ------------------------------------------- Database.sync_keys_with_server
TemporaryNames == {"Temporary_1"}

\* a naming that relabels temporary names only
sync_key_name_prefix(e) ==
    IF e.name \in TemporaryNames THEN "Key_" \o e.id ELSE e.name

\* the name a remote key is stored under
sync_key_name(e) ==
    IF e.name = "" \/ e.name \in TemporaryNames THEN "Key_" \o e.id ELSE e.name

\* the data limit a listing entry reports, 0 when it reports none
sync_data_limit(e) == IF e.dataLimit # <<>> THEN e.dataLimit[1] ELSE ZeroBytes

\* a snapshot that misses every row
db_keys_empty(ks) == [k \in {} |-> ZeroBytes]

\* db_keys: key_id -> data_limit of the rows read at the start of the pass
\* (a later row of the same key_id overwrites an earlier one)
db_keys_of(ks) ==
    [k \in {ks[i].key_id : i \in DOMAIN ks} |->
        ks[CHOOSE i \in RowsOf(ks, k) : \A j \in RowsOf(ks, k) : i >= j].data_limit]

\* one identity shared by every key found on the server only
placeholder_shared(key_id) == -1

\* the owner identity given to a key found on the server only
placeholder_id(key_id) == -ToInt(key_id)

\* a drift test that skips a key the server reports no limit for
limit_drifted_positive(db_limit, data_limit) ==
    BigPositive(data_limit) /\ db_limit # data_limit

\* the test "db_limit != data_limit" of the pass
limit_drifted(db_limit, data_limit) == db_limit # data_limit

\* an update that also takes the name and the placeholder owner from the listing
sync_update_all(e, data_limit) ==
    [data_limit |-> data_limit, name |-> sync_key_name(e), user_id |-> placeholder_id(e.id)]

\* UPDATE access_keys SET data_limit = ? WHERE key_id = ?
sync_update(e, data_limit) == [data_limit |-> data_limit]

RECURSIVE sync_loop(_, _, _, _, _)
\* the loop over server_keys; an exception raised for one key ends the pass
sync_loop(ks, us, listing, db_keys, t) ==
    IF listing = <<>> THEN [keys |-> ks, users |-> us, aborted |-> FALSE]
    ELSE
      LET e == Head(listing)
          key_id == e.id
          key_name == sync_key_name(e)
          data_limit == sync_data_limit(e)
      IN  IF key_id \notin DOMAIN db_keys
          THEN IF ~IsNumeric(key_id) \/ e.accessUrl = ""
               THEN [keys |-> ks, users |-> us, aborted |-> TRUE]
               ELSE LET owner == placeholder_id(key_id)
                        us2 == IF owner \in DOMAIN us THEN us
                               ELSE (owner :> NewUser(key_name)) @@ us
                        ks2 == Append(ks,
                                 [key_id |-> key_id, user_id |-> owner, name |-> key_name,
                                  access_url |-> e.accessUrl, data_limit |-> data_limit,
                                  paid_until |-> 0, created_at |-> t])
                    IN  sync_loop(ks2, us2, Tail(listing), db_keys, t)
          ELSE IF limit_drifted(db_keys[key_id], data_limit)
               THEN sync_loop(SeqMap2(ks, key_id, sync_update(e, data_limit)), us,
                              Tail(listing), db_keys, t)
               ELSE sync_loop(ks, us, Tail(listing), db_keys, t)

\* a pass that takes a failed listing for an empty server and clears the table
sync_keys_with_server_clearing(ks, us, sk, t) ==
    IF ~sk.ok THEN [keys |-> <<>>, users |-> us, aborted |-> TRUE]
    ELSE sync_loop(ks, us, sk.server_keys, db_keys_of(ks), t)

\* a pass that also removes the rows of keys the listing does not have
sync_keys_with_server_pruning(ks, us, sk, t) ==
    IF ~sk.ok THEN [keys |-> ks, users |-> us, aborted |-> TRUE]
    ELSE LET r == sync_loop(ks, us, sk.server_keys, db_keys_of(ks), t)
         IN  [r EXCEPT !.keys = SelectSeq(r.keys, LAMBDA row :
                    \E i \in DOMAIN sk.server_keys : sk.server_keys[i].id = row.key_id)]

\* one reconciliation pass over the result sk of get_access_keys
sync_keys_with_server(ks, us, sk, t) ==
    IF ~sk.ok THEN [keys |-> ks, users |-> us, aborted |-> TRUE]
    ELSE sync_loop(ks, us, sk.server_keys, db_keys_of(ks), t)

RECURSIVE by_created_at_desc(_)
\* ORDER BY created_at DESC, rows of one instant in rowid order
by_created_at_desc(ks) ==
    IF ks = <<>> THEN <<>>
    ELSE LET newest == CHOOSE t \in {ks[i].created_at : i \in DOMAIN ks} :
                            \A i \in DOMAIN ks : ks[i].created_at <= t
         IN  SelectSeq(ks, LAMBDA r : r.created_at = newest)
                \o by_created_at_desc(SelectSeq(ks, LAMBDA r : r.created_at # newest))

\* Database.get_all_keys, after its reconciliation pass: the key ids of the
\* rows it returns
get_all_keys(ks) ==
    LET rows == by_created_at_desc(ks)
    IN  [i \in DOMAIN rows |-> rows[i].key_id]

\* ------------------------------------------------------- key_manager.py
\* an entry that forgets the key the button named
Flow_keyless(state, key_id, chat_id, message_id) ==
    [state |-> state, key_id |-> "", chat_id |-> chat_id, message_id |-> message_id]

\* the dict a flow start stores in user_states; key_id "" when it has none
Flow(state, key_id, chat_id, message_id) ==
    [state |-> state, key_id |-> key_id, chat_id |-> chat_id, message_id |-> message_id]

\* user_states[u].get('state'), "" when the actor has no entry
StateOf(sts, u) == IF u \in DOMAIN sts THEN sts[u].state ELSE ""

\* an assignment that keeps the entry the actor already has
set_flow_default(sts, u, flow) == sts @@ (u :> flow)

\* user_states[u] = {...}
set_flow(sts, u, flow) == (u :> flow) @@ sts

\* a removal that empties the whole dict
DelState_all(sts, u) == <<>>

\* a removal that leaves the entry in place
DelState_kept(sts, u) == sts

\* del user_states[u]
DelState(sts, u) == [a \in DOMAIN sts \ {u} |-> sts[a]]

Event(h, u, k, t) == [h |-> h, u |-> u, k |-> k, t |-> t]

Request(op, key, name, bytes, ok) ==
    [op |-> op, key |-> key, name |-> name, bytes |-> bytes, ok |-> ok]

\* what a handler leaves behind for the observer
Observed(e, rs, cs, sk) ==
    /\ last' = e
    /\ replies' = rs
    /\ calls' = cs
    /\ sync' = sk
    /\ view' = NoView

\* a quota test that is off by one
quota_exceeded(ks, us, u) ==
    count_user_keys(ks, u) >
        (IF u \in ADMIN_IDS \/ (u \in DOMAIN us /\ us[u].is_admin)
         THEN MAX_KEYS_PER_ADMIN ELSE MAX_KEYS_PER_USER)

\* the tier limit create_key_callback reads
max_keys(us, u) == IF is_admin(us, u) THEN MAX_KEYS_PER_ADMIN ELSE MAX_KEYS_PER_USER

\* the quota test of create_key_callback
quota_reached(ks, us, u) == count_user_keys(ks, u) >= max_keys(us, u)

\* a test that lets every requester through
may_manage_anyone(ks, us, u, k) == TRUE

\* a test that takes the owner of any key for the owner of this one
may_manage_any_row(ks, us, u, k) ==
    (\E i \in DOMAIN ks : ks[i].user_id = u) \/ is_admin(us, u)

\* the ownership-or-admin test of key_info_callback and delete_key_callback
may_manage(ks, us, u, k) == get_key_by_id(ks, k).user_id = u \/ is_admin(us, u)

\* a date test with the comparison turned round
date_in_future(date, current) == date > current

\* the test "date < now" of process_date_input
date_in_past(date, current) == date < current

\* round(bytes / 1000000000, 1), in tenths of a gigabyte ("2.0" is 20). An
\* exact tie (a multiple of 50,000,000 bytes that is not one of 100,000,000)
\* is rounded by Python on the binary value of the quotient; the byte
\* quantities used here are never ties.
round_gb(b) == (b[1] + 50) \div 100

\* a display that trusts the cap stored in the local row
format_key_info_local(key, rem, readOk, data_usage) ==
    IF ~BigPositive(key.data_limit)
    THEN <<round_gb(data_usage)>>
    ELSE <<round_gb(data_usage), round_gb(key.data_limit)>>

\* format_key_info: the traffic line of the key view, "<used> GB" or
\* "<used> GB / <limit> GB". readOk: outline.get_access_key succeeded;
\* data_usage: what outline.get_key_data_usage returned.
format_key_info(key, rem, readOk, data_usage) ==
    LET read == readOk /\ key.key_id \in DOMAIN rem
        data_limit == IF read /\ rem[key.key_id].limit # <<>>
                      THEN rem[key.key_id].limit[1] ELSE ZeroBytes
        usage == IF read THEN data_usage ELSE ZeroBytes
    IN  IF ~BigPositive(data_limit)
        THEN <<round_gb(usage)>>
        ELSE <<round_gb(usage), round_gb(data_limit)>>

\* /start
start_command(u) ==
    /\ users' = save_user(users, u, "tg")
    /\ Observed(Event("start", u, "", ""), <<"welcome">>, <<>>, NoListing)
    /\ UNCHANGED <<threads, keys, remote, nextId, user_states, now>>

\* button create_key
create_key_callback(u, m) ==
    /\ IF is_user_blocked(users, u)
       THEN /\ replies' = <<"user_blocked">>
            /\ UNCHANGED user_states
       ELSE IF quota_reached(keys, users, u)
       THEN /\ replies' = <<"max_keys_reached">>
            /\ UNCHANGED user_states
       ELSE /\ replies' = <<"enter_key_name">>
            /\ user_states' = set_flow(user_states, u, Flow("waiting_for_key_name", "", u, m))
    /\ last' = Event("create_key", u, "", "")
    /\ view' = NoView
    /\ calls' = <<>>
    /\ sync' = NoListing
    /\ UNCHANGED <<threads, users, keys, remote, nextId, now>>

\* a try block that files the row before it hears from the server
key_name_rows_eager(ks, u, createOk, key_data, t) == save_access_key(ks, u, key_data, t)

\* the try block of handle_key_name_input: an exception raised by
\* outline.create_access_key skips db.save_access_key
key_name_rows(ks, u, createOk, key_data, t) ==
    IF createOk THEN save_access_key(ks, u, key_data, t) ELSE ks

\* a text while the actor's state is waiting_for_key_name. createOk: the
\* server served POST /access-keys; issued: the keys the server may issue.
handle_key_name_input(u, t, createOk, issued) ==
    /\ StateOf(user_states, u) = "waiting_for_key_name"
    /\ createOk => nextId < issued
    /\ keys' = key_name_rows(keys, u, createOk, create_access_key(t, nextId), now)
    /\ IF createOk
       THEN LET key_data == create_access_key(t, nextId)
            IN  /\ remote' = RemoteCreate(remote, t, nextId)
                /\ nextId' = nextId + 1
                /\ replies' = <<"key_created", "welcome">>
                /\ calls' = <<Request("POST_key", key_data.id, t, ZeroBytes, TRUE)>>
       ELSE /\ replies' = <<"error", "welcome">>
            /\ calls' = <<Request("POST_key", "", t, ZeroBytes, FALSE)>>
            /\ UNCHANGED <<remote, nextId>>
    /\ user_states' = DelState(user_states, u)
    /\ last' = Event("key_name", u, "", t)
    /\ view' = NoView
    /\ sync' = NoListing
    /\ UNCHANGED <<threads, users, now>>

\* button set_limit_<key_id>
set_limit_callback(u, k, m) ==
    /\ IF ~is_admin(users, u)
       THEN /\ replies' = <<"not_admin">>
            /\ UNCHANGED user_states
       ELSE /\ replies' = <<"input_limit">>
            /\ user_states' = set_flow(user_states, u, Flow("waiting_for_limit", k, u, m))
    /\ last' = Event("set_limit", u, k, "")
    /\ view' = NoView
    /\ calls' = <<>>
    /\ sync' = NoListing
    /\ UNCHANGED <<threads, users, keys, remote, nextId, now>>

\* button set_paid_<key_id>
set_paid_callback(u, k, m) ==
    /\ IF ~is_admin(users, u)
       THEN /\ replies' = <<"not_admin">>
            /\ UNCHANGED user_states
       ELSE /\ replies' = <<"input_date">>
            /\ user_states' = set_flow(user_states, u, Flow("waiting_for_date", k, u, m))
    /\ last' = Event("set_paid", u, k, "")
    /\ view' = NoView
    /\ calls' = <<>>
    /\ sync' = NoListing
    /\ UNCHANGED <<threads, users, keys, remote, nextId, now>>

\* button back_to_main
back_to_main_callback(u) ==
    /\ user_states' = DelState(user_states, u)
    /\ Observed(Event("back_to_main", u, "", ""), <<"welcome">>, <<>>, NoListing)
    /\ UNCHANGED <<threads, users, keys, remote, nextId, now>>

\* a check that lets a limit of 0 through
limit_rejected_negative(limit_gb) == ~limit_gb.ok \/ limit_gb.mant < 0

\* float() raised ValueError, or limit_gb <= 0
limit_rejected(limit_gb) == ~limit_gb.ok \/ limit_gb.mant <= 0

\* a text while the actor's state is waiting_for_limit
process_limit_input(u, t, reqOk, readOk, readBack) ==
    /\ StateOf(user_states, u) = "waiting_for_limit"
    /\ LET key_id == user_states[u].key_id
           limit_gb == float(t)
       IN  IF limit_rejected(limit_gb)
           THEN \* ValueError: the message is sent and the handler returns
                /\ replies' = <<"invalid_limit">>
                /\ calls' = <<>>
                /\ UNCHANGED <<remote, user_states>>
           ELSE LET r == set_data_limit(remote, key_id, limit_bytes_of(limit_gb), reqOk, readOk,
                                        readBack)
                IN  /\ remote' = r.remote
                    /\ calls' = <<r.request>> \o r.read
                    /\ replies' = <<IF r.result THEN "data_limit_set" ELSE "error",
                                   IF HasRow(keys, key_id) THEN "key_info" ELSE "welcome">>
                    /\ user_states' = DelState(user_states, u)
    /\ last' = Event("limit", u, user_states[u].key_id, t)
    /\ view' = NoView
    /\ sync' = NoListing
    /\ UNCHANGED <<threads, users, keys, nextId, now>>

\* a text while the actor's state is waiting_for_date
process_date_input(u, t) ==
    /\ StateOf(user_states, u) = "waiting_for_date"
    /\ LET key_id == user_states[u].key_id
           p == split_ints(t)
           wellFormed == p.ok /\ Len(p.parts) = 3
                            /\ ValidDate(p.parts[3], p.parts[2], p.parts[1])
           timestamp == date_timestamp(p.parts[3], p.parts[2], p.parts[1])
       IN  IF ~wellFormed
           THEN \* ValueError: the message is sent and the handler returns
                /\ replies' = <<"invalid_date">>
                /\ UNCHANGED <<keys, user_states>>
           ELSE IF date_in_past(timestamp, now)
           THEN /\ replies' = <<"date_in_past">>
                /\ UNCHANGED <<keys, user_states>>
           ELSE IF ~HasMethod("update_paid_until")
           THEN \* db.update_paid_until raises AttributeError, which no
                \* except clause of the handler catches
                /\ replies' = <<>>
                /\ UNCHANGED <<keys, user_states>>
           ELSE /\ keys' = update_key_payment(keys, key_id, timestamp)
                /\ replies' = <<"paid_until_set",
                               IF HasRow(keys, key_id) THEN "key_info" ELSE "welcome">>
                /\ user_states' = DelState(user_states, u)
    /\ last' = Event("date", u, user_states[u].key_id, t)
    /\ view' = NoView
    /\ calls' = <<>>
    /\ sync' = NoListing
    /\ UNCHANGED <<threads, users, remote, nextId, now>>

\* a text no other handler takes
unknown_message(u, t) ==
    /\ StateOf(user_states, u) \notin
            {"waiting_for_limit", "waiting_for_date", "waiting_for_key_name"}
    /\ Observed(Event("unknown", u, "", t), <<"welcome">>, <<>>, NoListing)
    /\ UNCHANGED <<threads, users, keys, remote, nextId, user_states, now>>

\* button delete_<key_id>. delOk: the server served DELETE /access-keys/{id}
delete_key_callback(u, k, delOk) ==
    /\ IF ~HasRow(keys, k)
       THEN /\ replies' = <<"key_not_found">>
            /\ calls' = <<>>
            /\ UNCHANGED <<keys, remote>>
       ELSE IF ~may_manage(keys, users, u, k)
       THEN /\ replies' = <<"not_admin">>
            /\ calls' = <<>>
            /\ UNCHANGED <<keys, remote>>
       ELSE LET deleted == delOk /\ k \in DOMAIN remote
            IN  /\ remote' = IF deleted THEN RemoteDelete(remote, k) ELSE remote
                /\ calls' = <<Request("DELETE_key", k, "", ZeroBytes, deleted)>>
                /\ IF ~HasMethod("delete_access_key")
                   THEN \* db.delete_access_key raises AttributeError, caught
                        \* by the handler's except clause
                        /\ replies' = <<"error">>
                        /\ UNCHANGED keys
                   ELSE /\ keys' = delete_key(keys, k)
                        /\ replies' = <<"key_deleted", "welcome">>
    /\ last' = Event("delete", u, k, "")
    /\ view' = NoView
    /\ sync' = NoListing
    /\ UNCHANGED <<threads, users, nextId, user_states, now>>

\* button key_<key_id>: the detail view
\* readOk: format_key_info's outline.get_access_key succeeded; transfer,
\* metrics, key_info: what the three reads of get_key_data_usage find.
key_info_callback(u, k, readOk, transfer, metrics, key_info) ==
    /\ key_info.ok => k \in DOMAIN remote
    /\ IF ~HasRow(keys, k)
       THEN replies' = <<"key_not_found">> /\ view' = NoView
       ELSE IF ~may_manage(keys, users, u, k)
       THEN replies' = <<"not_admin">> /\ view' = NoView
       ELSE LET read == readOk /\ k \in DOMAIN remote
                \* the except branch of format_key_info sets data_usage = 0
                data_usage == IF read THEN get_key_data_usage(k, transfer, metrics, key_info)
                              ELSE ZeroBytes
            IN  /\ replies' = <<"key_info">>
                /\ view' = [shown |-> TRUE, readOk |-> read,
                            transfer |-> transfer, metrics |-> metrics,
                            key_info |-> key_info, data_usage |-> data_usage,
                            line |-> format_key_info(get_key_by_id(keys, k), remote,
                                                     readOk, data_usage)]
    /\ last' = Event("key_info", u, k, "")
    /\ calls' = <<>>
    /\ sync' = NoListing
    /\ UNCHANGED <<threads, users, keys, remote, nextId, user_states, now>>

\* button all_keys: Database.get_all_keys reconciles, then reads every row.
\* listOk: GET /access-keys succeeded.
all_keys_callback(u, listOk, inList, detailOk) ==
    /\ IF ~is_admin(users, u)
       THEN /\ replies' = <<"not_admin">>
            /\ sync' = NoListing
            /\ UNCHANGED <<users, keys>>
       ELSE LET sk == IF listOk
                      THEN [ok |-> TRUE,
                            server_keys |-> get_access_keys(remote, nextId, inList, detailOk)]
                      ELSE [ok |-> FALSE, server_keys |-> <<>>]
                r == sync_keys_with_server(keys, users, sk, now)
            IN  /\ sync' = IF sk.ok
                           THEN [ok |-> TRUE, server_keys |-> sk.server_keys,
                                 db_keys |-> db_keys_of(keys), completed |-> ~r.aborted,
                                 rows |-> get_all_keys(r.keys)]
                           ELSE [NoListing EXCEPT !.rows = get_all_keys(r.keys)]
                /\ keys' = r.keys
                /\ users' = r.users
                /\ replies' = IF r.keys = <<>> THEN <<"no_keys">> ELSE <<"key_list_title">>
    /\ last' = Event("all_keys", u, "", "")
    /\ view' = NoView
    /\ calls' = <<>>
    /\ UNCHANGED <<threads, remote, nextId, user_states, now>>

\* Database.set_admin_status, the method by which an administration
\* command grants or withdraws the administrator flag of a stored user
set_admin_status(u, flag) ==
    /\ u \in DOMAIN users
    /\ users[u].is_admin # flag
    /\ users' = [users EXCEPT ![u].is_admin = flag]
    /\ Observed(Event("set_admin_status", u, "", ""), <<>>, <<>>, NoListing)
    /\ UNCHANGED <<threads, keys, remote, nextId, user_states, now>>

\* ------------------------------------------------- the server's own life
\* names the server's operator gives to keys made outside the bot
ServerNames == {"Temporary_1", "office"}
\* limits the server's operator sets outside the bot
ServerLimits == {<<>>, <<BigMulNat(5, Giga)>>}

\* a key made on the server outside the bot
ServerCreatesKey(name, issued) ==
    /\ nextId < issued
    /\ remote' = RemoteCreate(remote, name, nextId)
    /\ nextId' = nextId + 1
    /\ Observed(Event("server_create", 0, ToString(nextId), ""), <<>>, <<>>, NoListing)
    /\ UNCHANGED <<threads, users, keys, user_states, now>>

\* a key made on the server outside the bot under an id its operator chose
ServerCreatesCustomKey(id, name) ==
    /\ id \notin DOMAIN remote
    /\ remote' = (id :> [name |-> name, limit |-> <<>>, slot |-> nextId]) @@ remote
    /\ Observed(Event("server_create", 0, id, ""), <<>>, <<>>, NoListing)
    /\ UNCHANGED <<threads, users, keys, nextId, user_states, now>>

\* a limit changed on the server outside the bot
ServerSetsLimit(k, lim) ==
    /\ k \in DOMAIN remote
    /\ remote[k].limit # lim
    /\ remote' = [remote EXCEPT ![k].limit = lim]
    /\ Observed(Event("server_limit", 0, k, ""), <<>>, <<>>, NoListing)
    /\ UNCHANGED <<threads, users, keys, nextId, user_states, now>>

\* a key renamed on the server outside the bot
ServerRenamesKey(k, name) ==
    /\ k \in DOMAIN remote
    /\ remote[k].name # name
    /\ remote' = [remote EXCEPT ![k].name = name]
    /\ Observed(Event("server_name", 0, k, ""), <<>>, <<>>, NoListing)
    /\ UNCHANGED <<threads, users, keys, nextId, user_states, now>>

\* a key deleted on the server outside the bot
ServerDeletesKey(k) ==
    /\ k \in DOMAIN remote
    /\ remote' = RemoteDelete(remote, k)
    /\ Observed(Event("server_delete", 0, k, ""), <<>>, <<>>, NoListing)
    /\ UNCHANGED <<threads, users, keys, nextId, user_states, now>>

\* half a day passes
Tick ==
    /\ now < StartInstant + MaxTicks * HalfDay
    /\ now' = now + HalfDay
    /\ Observed(Event("tick", 0, "", ""), <<>>, <<>>, NoListing)
    /\ UNCHANGED <<threads, users, keys, remote, nextId, user_states>>

\* ------------------------------------- the key name handler, step by step
\* The bot is built with telebot's default threaded = True: a handler runs on
\* a worker thread, and nothing in key_manager.py locks user_states or the
\* store. The steps of handle_key_name_input are the points where a worker
\* can be overtaken by the other one.

Running(w, pc, u, t, key_data) ==
    [threads EXCEPT ![w] = [IdleThread EXCEPT !.pc = pc, !.u = u, !.t = t,
                                             !.key_data = key_data]]

\* process_key_name: a text passes the handler's filter and is given to an
\* idle worker
process_key_name(w, u, t) ==
    /\ threads[w].pc = "idle"
    /\ StateOf(user_states, u) = "waiting_for_key_name"
    /\ threads' = Running(w, "check", u, t, <<>>)
    /\ Observed(Event("process_key_name", u, "", t), <<>>, <<>>, NoListing)
    /\ UNCHANGED <<users, keys, remote, nextId, user_states, now>>

\* handle_key_name_input: the state test at its head
key_name_check(w) ==
    /\ threads[w].pc = "check"
    /\ threads' = IF StateOf(user_states, threads[w].u) = "waiting_for_key_name"
                  THEN [threads EXCEPT ![w].pc = "create"]
                  ELSE [threads EXCEPT ![w] = IdleThread]
    /\ Observed(Event("key_name_check", threads[w].u, "", threads[w].t), <<>>, <<>>, NoListing)
    /\ UNCHANGED <<users, keys, remote, nextId, user_states, now>>

\* handle_key_name_input: outline.create_access_key(key_name)
key_name_create(w, createOk, issued) ==
    /\ threads[w].pc = "create"
    /\ createOk => nextId < issued
    /\ LET u == threads[w].u
           t == threads[w].t
       IN  IF createOk
           THEN LET key_data == create_access_key(t, nextId)
                IN  /\ remote' = RemoteCreate(remote, t, nextId)
                    /\ nextId' = nextId + 1
                    /\ threads' = Running(w, "save", u, t, <<key_data>>)
                    /\ calls' = <<Request("POST_key", key_data.id, t, ZeroBytes, TRUE)>>
                    /\ replies' = <<>>
           ELSE /\ threads' = Running(w, "finish", u, t, <<>>)
                /\ calls' = <<Request("POST_key", "", t, ZeroBytes, FALSE)>>
                /\ replies' = <<"error">>
                /\ UNCHANGED <<remote, nextId>>
    /\ last' = Event("key_name_create", threads[w].u, "", threads[w].t)
    /\ view' = NoView
    /\ sync' = NoListing
    /\ UNCHANGED <<users, keys, user_states, now>>

\* handle_key_name_input: db.save_access_key(user_id, key_data)
key_name_save(w) ==
    /\ threads[w].pc = "save"
    /\ keys' = save_access_key(keys, threads[w].u, threads[w].key_data[1], now)
    /\ threads' = [threads EXCEPT ![w].pc = "finish"]
    /\ Observed(Event("key_name_save", threads[w].u, threads[w].key_data[1].id, threads[w].t),
                <<"key_created">>, <<>>, NoListing)
    /\ UNCHANGED <<users, remote, nextId, user_states, now>>

\* handle_key_name_input: del user_states[user_id] and the main menu; the
\* del raises KeyError when the other worker has removed the entry, and the
\* handler ends there
key_name_finish(w) ==
    /\ threads[w].pc = "finish"
    /\ user_states' = DelState(user_states, threads[w].u)
    /\ threads' = [threads EXCEPT ![w] = IdleThread]
    /\ Observed(Event("key_name_finish", threads[w].u, "", threads[w].t),
                IF threads[w].u \in DOMAIN user_states THEN <<"welcome">> ELSE <<>>,
                <<>>, NoListing)
    /\ UNCHANGED <<users, keys, remote, nextId, now>>

\* ---------------------------------- the reconciliation pass, step by step
\* all_keys_callback on a worker thread: the administrator test, then
\* get_all_keys enters sync_keys_with_server and reads the listing
all_keys_list(w, u, listOk, inList, detailOk) ==
    /\ threads[w].pc = "idle"
    /\ is_admin(users, u)
    /\ threads' = [threads EXCEPT ![w] =
            [IdleThread EXCEPT !.pc = IF listOk THEN "snapshot" ELSE "select",
                               !.u = u,
                               !.server_keys = IF listOk
                                    THEN get_access_keys(remote, nextId, inList, detailOk)
                                    ELSE <<>>]]
    /\ Observed(Event("all_keys_list", u, "", ""), <<>>, <<>>, NoListing)
    /\ UNCHANGED <<users, keys, remote, nextId, user_states, now>>

\* sync_keys_with_server: SELECT key_id, data_limit FROM access_keys
all_keys_snapshot(w) ==
    /\ threads[w].pc = "snapshot"
    /\ threads' = [threads EXCEPT ![w].pc = "loop", ![w].db_keys = db_keys_of(keys)]
    /\ Observed(Event("all_keys_snapshot", threads[w].u, "", ""), <<>>, <<>>, NoListing)
    /\ UNCHANGED <<users, keys, remote, nextId, user_states, now>>

\* sync_keys_with_server: one turn of the loop over server_keys, each
\* insert or update committed on its own connection
all_keys_loop(w) ==
    /\ threads[w].pc = "loop"
    /\ IF threads[w].server_keys = <<>>
       THEN /\ threads' = [threads EXCEPT ![w].pc = "select"]
            /\ UNCHANGED <<keys, users>>
       ELSE LET r == sync_loop(keys, users, <<Head(threads[w].server_keys)>>,
                              threads[w].db_keys, now)
            IN  /\ keys' = r.keys
                /\ users' = r.users
                /\ threads' = IF r.aborted
                              THEN [threads EXCEPT ![w].pc = "select"]
                              ELSE [threads EXCEPT ![w].server_keys = Tail(@)]
    /\ Observed(Event("all_keys_loop", threads[w].u, "", ""), <<>>, <<>>, NoListing)
    /\ UNCHANGED <<remote, nextId, user_states, now>>

\* get_all_keys: the SELECT over access_keys, and the list the view shows
all_keys_select(w) ==
    /\ threads[w].pc = "select"
    /\ threads' = [threads EXCEPT ![w] = IdleThread]
    /\ Observed(Event("all_keys", threads[w].u, "", ""),
                IF keys = <<>> THEN <<"no_keys">> ELSE <<"key_list_title">>,
                <<>>, [NoListing EXCEPT !.rows = get_all_keys(keys)])
    /\ UNCHANGED <<users, keys, remote, nextId, user_states, now>>

\* ------------------------------------------------------ specification
\* the key ids the server has issued so far
IssuedIds == {ToString(i) : i \in 0..(nextId - 1)}

\* the chat handlers against a server nobody else changes
Next ==
    \/ \E u \in Actors : start_command(u)
    \/ \E u \in Actors, m \in MessageIds : create_key_callback(u, m)
    \/ \E u \in Actors, t \in NameTexts, ok \in BOOLEAN : handle_key_name_input(u, t, ok, MaxKeys)
    \/ \E u \in Actors, k \in IssuedIds, m \in MessageIds : set_limit_callback(u, k, m)
    \/ \E u \in Actors, k \in IssuedIds, m \in MessageIds : set_paid_callback(u, k, m)
    \/ \E u \in Actors : back_to_main_callback(u)
    \/ \E u \in Actors, t \in Texts, reqOk \in BOOLEAN, readOk \in BOOLEAN :
            process_limit_input(u, t, reqOk, readOk, <<>>)
    \/ \E u \in Actors, t \in Texts : process_date_input(u, t)
    \/ \E u \in Actors, t \in Texts : unknown_message(u, t)
    \/ \E u \in Actors, k \in IssuedIds, ok \in BOOLEAN : delete_key_callback(u, k, ok)
    \/ \E u \in Actors, k \in IssuedIds, readOk \in BOOLEAN :
            key_info_callback(u, k, readOk, Failed, Failed, FailedRead)
    \/ Tick

Spec == Init /\ [][Next]_vars

\* reconciliation: the all-keys view against a server its operator also changes
NextSync ==
    \/ \E u \in Actors : start_command(u)
    \/ \E u \in Actors, m \in MessageIds : create_key_callback(u, m)
    \/ \E u \in Actors, t \in NameTexts, ok \in BOOLEAN : handle_key_name_input(u, t, ok, MaxKeys)
    \/ \E u \in Actors, listOk \in BOOLEAN, inList \in BOOLEAN, detailOk \in SUBSET IssuedIds :
            all_keys_callback(u, listOk, inList, detailOk)
    \/ \E name \in ServerNames : ServerCreatesKey(name, MaxKeys)
    \/ \E k \in IssuedIds, lim \in ServerLimits : ServerSetsLimit(k, lim)
    \/ \E k \in IssuedIds : ServerDeletesKey(k)
    \/ \E u \in Actors, k \in IssuedIds, ok \in BOOLEAN : delete_key_callback(u, k, ok)

SpecSync == Init /\ [][NextSync]_vars

\* keys the remote server issues in SpecQuota: one more than both tiers hold
QuotaKeys == 12

\* the create flow alone, up to the quota of either tier
NextQuota ==
    \/ \E u \in Actors : start_command(u)
    \/ \E u \in Actors, m \in MessageIds : create_key_callback(u, m)
    \/ \E u \in Actors, t \in NameTexts, ok \in BOOLEAN :
            handle_key_name_input(u, t, ok, QuotaKeys)
    \/ \E u \in Actors : back_to_main_callback(u)

SpecQuota == Init /\ [][NextQuota]_vars

\* the create flow with the key name handler on the worker threads
NextThreads ==
    \/ \E u \in Actors, m \in MessageIds : create_key_callback(u, m)
    \/ \E u \in Actors : back_to_main_callback(u)
    \/ \E w \in Workers, u \in Actors, t \in NameTexts : process_key_name(w, u, t)
    \/ \E w \in Workers : key_name_check(w)
    \/ \E w \in Workers, ok \in BOOLEAN : key_name_create(w, ok, MaxKeys + 1)
    \/ \E w \in Workers : key_name_save(w)
    \/ \E w \in Workers : key_name_finish(w)

SpecThreads == Init /\ [][NextThreads]_vars

\* reconciliation passes on the worker threads, next to a create and to a
\* server that issues keys of its own
NextPasses ==
    \/ \E u \in Actors, m \in MessageIds : create_key_callback(u, m)
    \/ \E w \in Workers, u \in Actors, t \in NameTexts : process_key_name(w, u, t)
    \/ \E w \in Workers : key_name_check(w)
    \/ \E w \in Workers, ok \in BOOLEAN : key_name_create(w, ok, MaxKeys)
    \/ \E w \in Workers : key_name_save(w)
    \/ \E w \in Workers : key_name_finish(w)
    \/ \E w \in Workers, u \in Actors, listOk \in BOOLEAN, detailOk \in SUBSET IssuedIds :
            all_keys_list(w, u, listOk, TRUE, detailOk)
    \/ \E w \in Workers : all_keys_snapshot(w)
    \/ \E w \in Workers : all_keys_loop(w)
    \/ \E w \in Workers : all_keys_select(w)
    \/ \E name \in ServerNames : ServerCreatesKey(name, MaxKeys)

SpecPasses == Init /\ [][NextPasses]_vars

\* the limit and date flows while administrator flags are granted and withdrawn
NextTier ==
    \/ \E u \in Actors : start_command(u)
    \/ \E u \in Actors, m \in MessageIds : create_key_callback(u, m)
    \/ \E u \in Actors, t \in NameTexts, ok \in BOOLEAN : handle_key_name_input(u, t, ok, MaxKeys)
    \/ \E u \in Actors \ ADMIN_IDS, flag \in BOOLEAN : set_admin_status(u, flag)
    \/ \E u \in Actors, k \in IssuedIds, m \in MessageIds : set_limit_callback(u, k, m)
    \/ \E u \in Actors, k \in IssuedIds, m \in MessageIds : set_paid_callback(u, k, m)
    \/ \E u \in Actors, t \in Texts, reqOk \in BOOLEAN, readOk \in BOOLEAN :
            process_limit_input(u, t, reqOk, readOk, <<>>)
    \/ \E u \in Actors, t \in Texts : process_date_input(u, t)

SpecTier == Init /\ [][NextTier]_vars

\* what GET /metrics/transfer may hold: nothing fetched, no entry, an entry
\* for one key or the other, an entry of 0 bytes
TransferReports ==
    {Failed, [ok |-> TRUE, byId |-> {}],
     [ok |-> TRUE, byId |-> {<<"0", <<1234, 567890>>>>}],
     [ok |-> TRUE, byId |-> {<<"0", ZeroBytes>>, <<"1", <<20, 0>>>>}]}
\* what GET /metrics may hold
MetricsReports ==
    {Failed, [ok |-> TRUE, byId |-> {}],
     [ok |-> TRUE, byId |-> {<<"0", <<4960, 0>>>>, <<"1", <<30, 0>>>>}]}
\* what the key's own record may hold
KeyReads ==
    {FailedRead,
     [ok |-> TRUE, usageBytes |-> <<>>, usage |-> <<>>],
     [ok |-> TRUE, usageBytes |-> <<<<77, 0>>>>, usage |-> <<>>],
     [ok |-> TRUE, usageBytes |-> <<>>, usage |-> <<<<88, 0>>>>],
     [ok |-> TRUE, usageBytes |-> <<<<77, 0>>>>, usage |-> <<<<88, 0>>>>]}

\* the keys the server issues while one key's view or limit is exercised
ViewKeys == 1

\* texts an actor sends as a limit
CapTexts == {"home", "0", "-1", "0.5", "5", "0.0000000001"}
\* what the server's operator does to the key between the mutating request
\* and the verifying read: nothing, remove its limit, set it to 7 GB
Interleaved == {<<>>, <<<<>>>>, <<<<BigMulNat(7, Giga)>>>>}

\* the limit flow against every outcome of its two requests
NextCap ==
    \/ \E u \in Actors : start_command(u)
    \/ \E u \in Actors, m \in MessageIds : create_key_callback(u, m)
    \/ \E u \in Actors, t \in NameTexts, ok \in BOOLEAN : handle_key_name_input(u, t, ok, ViewKeys)
    \/ \E u \in Actors, k \in IssuedIds, m \in MessageIds : set_limit_callback(u, k, m)
    \/ \E u \in Actors, t \in CapTexts, reqOk \in BOOLEAN, readOk \in BOOLEAN,
          readBack \in Interleaved :
            process_limit_input(u, t, reqOk, readOk, readBack)
    \/ \E u \in Actors, detailOk \in SUBSET IssuedIds :
            all_keys_callback(u, TRUE, FALSE, detailOk)
    \/ \E k \in IssuedIds : ServerDeletesKey(k)

SpecCap == Init /\ [][NextCap]_vars

\* the key view against every outcome of the reads it makes
NextView ==
    \/ \E m \in MessageIds : create_key_callback(1, m)
    \/ \E t \in NameTexts, ok \in BOOLEAN : handle_key_name_input(1, t, ok, ViewKeys)
    \/ \E k \in IssuedIds, lim \in ServerLimits : ServerSetsLimit(k, lim)
    \/ \E u \in Actors, detailOk \in SUBSET IssuedIds :
            all_keys_callback(u, TRUE, FALSE, detailOk)
    \/ \E u \in Actors, k \in IssuedIds, readOk \in BOOLEAN,
          transfer \in TransferReports, metrics \in MetricsReports, key_info \in KeyReads :
            key_info_callback(u, k, readOk, transfer, metrics, key_info)

SpecView == Init /\ [][NextView]_vars

\* reconciliation against a server whose operator renames keys and changes limits
NextFrame ==
    \/ \E m \in MessageIds : create_key_callback(1, m)
    \/ \E t \in NameTexts : handle_key_name_input(1, t, TRUE, MaxKeys)
    \/ \E name \in ServerNames : ServerCreatesKey(name, MaxKeys)
    \/ \E k \in IssuedIds, lim \in ServerLimits : ServerSetsLimit(k, lim)
    \/ \E k \in IssuedIds, name \in ServerNames : ServerRenamesKey(k, name)
    \/ \E listOk \in BOOLEAN, inList \in BOOLEAN, detailOk \in SUBSET IssuedIds :
            all_keys_callback(1, listOk, inList, detailOk)

SpecFrame == Init /\ [][NextFrame]_vars

\* the names a key can have on the server: a key nobody named has the empty one
OperatorNames == ServerNames \cup {""}

\* passes on both workers over keys the server's operator makes and renames
NextNames ==
    \/ \E name \in OperatorNames : ServerCreatesKey(name, ViewKeys)
    \/ \E k \in IssuedIds, name \in OperatorNames : ServerRenamesKey(k, name)
    \/ \E w \in Workers : all_keys_list(w, 1, TRUE, TRUE, {})
    \/ \E w \in Workers : all_keys_snapshot(w)
    \/ \E w \in Workers : all_keys_loop(w)
    \/ \E w \in Workers : all_keys_select(w)

SpecNames == Init /\ [][NextNames]_vars

\* reconciliation against a server that also holds a key under a chosen id
NextCustom ==
    \/ \E name \in ServerNames : ServerCreatesKey(name, MaxKeys)
    \/ \E id \in CustomIds : ServerCreatesCustomKey(id, "office")
    \/ \E k \in IssuedIds, lim \in ServerLimits : ServerSetsLimit(k, lim)
    \/ \E listOk \in BOOLEAN : all_keys_callback(1, listOk, TRUE, {})

SpecCustom == Init /\ [][NextCustom]_vars

\* the three actions that write to the server, each against a server that
\* serves or refuses the request
NextAttempt ==
    \/ \E u \in Actors, m \in MessageIds : create_key_callback(u, m)
    \/ \E u \in Actors, t \in NameTexts, ok \in BOOLEAN : handle_key_name_input(u, t, ok, MaxKeys)
    \/ \E u \in Actors, k \in IssuedIds, m \in MessageIds : set_limit_callback(u, k, m)
    \/ \E u \in Actors, t \in {"5", "0.0000000001"}, reqOk \in BOOLEAN, readOk \in BOOLEAN :
            process_limit_input(u, t, reqOk, readOk, <<>>)
    \/ \E u \in Actors, k \in IssuedIds, ok \in BOOLEAN : delete_key_callback(u, k, ok)

SpecAttempt == Init /\ [][NextAttempt]_vars

\* anchors of the prompts while flows replace one another
AnchorIds == {1, 2}

\* a press of set_limit_<key_id> by an actor who has a flow pending
set_limit_over_pending(u, k, m) ==
    /\ StateOf(user_states, u) # ""
    /\ set_limit_callback(u, k, m)

\* flows started over pending flows; the limit flow only ever over one
NextFlow ==
    \/ \E u \in Actors, m \in AnchorIds : create_key_callback(u, m)
    \/ \E u \in Actors, t \in NameTexts, ok \in BOOLEAN : handle_key_name_input(u, t, ok, MaxKeys)
    \/ \E u \in Actors, k \in IssuedIds, m \in AnchorIds : set_paid_callback(u, k, m)
    \/ \E u \in Actors, k \in IssuedIds, m \in AnchorIds : set_limit_over_pending(u, k, m)
    \/ \E u \in Actors, t \in {"home", "5"}, reqOk \in BOOLEAN :
            process_limit_input(u, t, reqOk, TRUE, <<>>)
    \/ \E u \in Actors, t \in {"home", "03.01.2026"} : process_date_input(u, t)

SpecFlow == Init /\ [][NextFlow]_vars

\* a press of create_key while no handler of the bot is running
create_key_at_rest(u, m) ==
    /\ \A w \in Workers : threads[w].pc = "idle"
    /\ create_key_callback(u, m)

\* one flow start at a time, its texts on the worker threads
NextOneFlow ==
    \/ \E u \in Actors, m \in MessageIds : create_key_at_rest(u, m)
    \/ \E w \in Workers, u \in Actors, t \in NameTexts : process_key_name(w, u, t)
    \/ \E w \in Workers : key_name_check(w)
    \/ \E w \in Workers, ok \in BOOLEAN : key_name_create(w, ok, MaxKeys + 1)
    \/ \E w \in Workers : key_name_save(w)
    \/ \E w \in Workers : key_name_finish(w)

SpecOneFlow == Init /\ [][NextOneFlow]_vars

\* ------------------------------------------------------------ properties
FlowHandlers == {"key_name", "limit", "date"}

\* the delete handler reached the server call, and the server call failed
DeleteFailedRemotely ==
    /\ last.h = "delete"
    /\ calls # <<>>
    /\ calls[1].op = "DELETE_key"
    /\ ~calls[1].ok

\* C1: when an authorised actor deletes a key and the remote delete call
\* fails, the local row of that key is gone once the handler returns.
C1_DeleteRemovesLocalRow ==
    DeleteFailedRemotely => ~HasRow(keys, last.k)

\* C2: once a text has been consumed by a pending flow, whatever the outcome
\* of the mutation, the actor has no pending flow.
C2_FlowConsumedOnce ==
    last.h \in FlowHandlers => StateOf(user_states, last.u) = ""

\* the text of the last event read as a date DD.MM.YYYY
LastDate ==
    LET p == split_ints(last.t)
    IN  IF p.ok /\ Len(p.parts) = 3 /\ ValidDate(p.parts[3], p.parts[2], p.parts[1])
        THEN [ok |-> TRUE, at |-> date_timestamp(p.parts[3], p.parts[2], p.parts[1])]
        ELSE [ok |-> FALSE, at |-> 0]

\* C9: a well-formed date whose instant lies strictly before the current
\* instant is answered with the date-in-past message, and no row changes.
C9_ExpiryRejection ==
    [][(last'.h = "date" /\ LastDate'.ok /\ LastDate'.at < now')
            => /\ replies' = <<"date_in_past">>
               /\ keys' = keys
               /\ remote' = remote]_vars

\* a past date was submitted for a key that has a row
C9_Witness ==
    /\ last.h = "date"
    /\ LastDate.ok
    /\ LastDate.at < now
    /\ HasRow(keys, last.k)
    /\ replies = <<"date_in_past">>

\* the keys an actor owns, and the most the actor's tier allows
Owned(ks, u) == Cardinality({i \in DOMAIN ks : ks[i].user_id = u})
TierLimit(u) == IF u \in ADMIN_IDS THEN MAX_KEYS_PER_ADMIN ELSE MAX_KEYS_PER_USER

\* C3: a create requested by an actor who owns as many keys as the tier
\* allows is refused, without a request to the server and without a new row;
\* one requested below the limit is let through to the name prompt; and no
\* actor gains a row while at the limit.
C3_QuotaEnforcement ==
    [][/\ last'.h = "create_key" =>
            IF Owned(keys, last'.u) >= TierLimit(last'.u)
            THEN /\ replies' = <<"max_keys_reached">>
                 /\ calls' = <<>>
                 /\ keys' = keys
                 /\ remote' = remote
                 /\ user_states' = user_states
                 /\ StateOf(user_states', last'.u) = ""
            ELSE /\ replies' = <<"enter_key_name">>
                 /\ StateOf(user_states', last'.u) = "waiting_for_key_name"
       /\ \A u \in Actors :
            Owned(keys', u) > Owned(keys, u) => Owned(keys, u) < TierLimit(u)]_vars

\* the administrator holds ten keys and is refused an eleventh
C3_Witness ==
    /\ last.h = "create_key"
    /\ last.u \in ADMIN_IDS
    /\ Owned(keys, last.u) = MAX_KEYS_PER_ADMIN
    /\ replies = <<"max_keys_reached">>
    /\ \E u \in Actors \ ADMIN_IDS : Owned(keys, u) = MAX_KEYS_PER_USER

\* C4: whatever the interleaving of the events of one actor on the worker
\* threads, no real actor owns more keys than the tier allows.
C4_QuotaUnderDoubleSubmit ==
    \A u \in Actors : Owned(keys, u) <= TierLimit(u)

\* C8: a whole number g > 0 of gigabytes entered in the limit flow is sent to
\* the server as g * 1,000,000,000 bytes, and utils.gb_to_bytes gives the
\* same number of bytes for g.
C8_DecimalGigabytes ==
    (last.h = "limit" /\ calls # <<>> /\ float(last.t).ok /\ float(last.t).exp = 0) =>
        LET g == float(last.t).mant
        IN  /\ calls[1].op = "PUT_limit"
            /\ calls[1].bytes = <<g * 1000, 0>>
            /\ gb_to_bytes(g) = <<g * 1000, 0>>

\* usage figures the server may report for a key
Usages == {ZeroBytes, <<1234, 567890>>, <<4960, 0>>}

\* the limit flow sent a whole number of gigabytes and reported success
CapAccepted ==
    /\ last.h = "limit"
    /\ calls # <<>>
    /\ calls[1].ok
    /\ replies[1] = "data_limit_set"
    /\ float(last.t).ok
    /\ float(last.t).exp = 0
    /\ HasRow(keys, last.k)

\* C11: once a cap of g gigabytes has been set with success, the key view
\* shows "g.0 GB" as the limit, next to the usage the server reports.
C11_CapRoundTrip ==
    CapAccepted =>
        \A usage \in Usages :
            format_key_info(get_key_by_id(keys, last.k), remote, TRUE, usage)
                = <<round_gb(usage), 10 * float(last.t).mant>>

\* a cap of 5 GB was set and is shown as 5.0 GB
C11_Witness ==
    /\ CapAccepted
    /\ last.t = "5"
    /\ format_key_info(get_key_by_id(keys, last.k), remote, TRUE, <<1234, 567890>>)
            = <<12, 50>>

\* the key name flow ended with a key the server issued
KeyIssued ==
    /\ last.h = "key_name"
    /\ calls # <<>>
    /\ calls[1].op = "POST_key"
    /\ calls[1].ok

\* C10: after a create whose remote call succeeded with id i, there is
\* exactly one row for i, owned by the actor, with no cap and no expiry, and
\* the rows of all other keys are as they were.
C10_CreatePostcondition ==
    [][KeyIssued' =>
        LET i == calls'[1].key
            others(ks) == SelectSeq(ks, LAMBDA r : r.key_id # i)
        IN  /\ Cardinality(RowsOf(keys', i)) = 1
            /\ \A j \in RowsOf(keys', i) :
                    /\ keys'[j].user_id = last'.u
                    /\ keys'[j].data_limit = ZeroBytes
                    /\ keys'[j].paid_until = 0
            /\ others(keys') = others(keys)]_vars

\* a key was created while the store held a row of another key
C10_Witness ==
    /\ KeyIssued
    /\ Len(keys) > 1
    /\ \E j \in DOMAIN keys : keys[j].key_id = calls[1].key /\ keys[j].user_id = last.u

\* the last pass read the listing and ran to its end
PassCompleted == last.h = "all_keys" /\ sync.ok /\ sync.completed

\* C5: a reconciliation pass run again over the same listing changes
\* neither the key rows nor the actor rows.
C5_IdempotentReconciliation ==
    PassCompleted =>
        LET again == sync_keys_with_server(keys, users,
                        [ok |-> TRUE, server_keys |-> sync.server_keys], now)
        IN  /\ again.keys = keys
            /\ again.users = users

\* a pass inserted the row of a key that exists on the server only
C5_Witness ==
    /\ PassCompleted
    /\ \E i \in DOMAIN sync.server_keys :
            /\ sync.server_keys[i].id \notin DOMAIN sync.db_keys
            /\ HasRow(keys, sync.server_keys[i].id)

\* an administrator opened the all-keys view and GET /access-keys failed
ListingFailed == last.h = "all_keys" /\ last.u \in ADMIN_IDS /\ ~sync.ok

\* C12: when the listing fails, the pass changes no key row and no actor
\* row, the view is answered as usual, and it lists every row of the store.
C12_FailedListingHarmless ==
    [][ListingFailed' =>
        /\ keys' = keys
        /\ users' = users
        /\ replies' = (IF keys = <<>> THEN <<"no_keys">> ELSE <<"key_list_title">>)
        /\ Len(sync'.rows) = Len(keys)
        /\ \A i \in DOMAIN keys :
                Cardinality({j \in DOMAIN sync'.rows : sync'.rows[j] = keys[i].key_id})
                    = Cardinality(RowsOf(keys, keys[i].key_id))]_vars

\* the listing failed while the store held a created and a discovered key
C12_Witness ==
    /\ ListingFailed
    /\ Len(sync.rows) = 2
    /\ \E i, j \in DOMAIN keys : keys[i].user_id \in Actors /\ keys[j].user_id \notin Actors

\* the key ids of the listing the last pass read
Listed == {sync.server_keys[i].id : i \in DOMAIN sync.server_keys}

\* C13: a pass leaves the row of a key that is missing from the listing in
\* place with every field as it was, and no step other than a delete of that
\* key takes a row out of the store.
C13_NoDeletionByAbsence ==
    [][\A i \in DOMAIN keys :
        /\ (last'.h = "delete" /\ last'.k = keys[i].key_id)
                \/ (i \in DOMAIN keys' /\ keys'[i].key_id = keys[i].key_id)
        /\ (last'.h = "all_keys" /\ keys[i].key_id \notin Listed')
                => (i \in DOMAIN keys' /\ keys'[i] = keys[i])]_vars

\* a pass read a listing that lacks a key the store has a capped row for
C13_Witness ==
    /\ PassCompleted
    /\ sync.server_keys # <<>>
    /\ \E i \in DOMAIN keys :
            /\ keys[i].key_id \notin Listed
            /\ keys[i].key_id \in DOMAIN sync.db_keys
            /\ BigPositive(keys[i].data_limit)

\* C14: after a pass whose listing succeeded every listed key has a row; a
\* key that had none before has exactly one, owned by the negated key id,
\* with the reported cap (0 if none) and the server's descriptor, and that
\* owner has a row in users.
C14_OrphanDiscovery ==
    (last.h = "all_keys" /\ sync.ok) =>
        \A n \in DOMAIN sync.server_keys :
            LET e == sync.server_keys[n]
            IN  /\ HasRow(keys, e.id)
                /\ e.id \notin DOMAIN sync.db_keys =>
                        /\ Cardinality(RowsOf(keys, e.id)) = 1
                        /\ \A j \in RowsOf(keys, e.id) :
                                /\ keys[j].user_id = 0 - ToInt(e.id)
                                /\ keys[j].data_limit =
                                        (IF e.dataLimit # <<>> THEN e.dataLimit[1] ELSE ZeroBytes)
                                /\ keys[j].access_url = e.accessUrl
                        /\ (0 - ToInt(e.id)) \in DOMAIN users

\* a pass found key "1" on the server only, with a cap, and filed it
C14_Witness ==
    /\ last.h = "all_keys"
    /\ sync.ok
    /\ \E n \in DOMAIN sync.server_keys :
            LET e == sync.server_keys[n]
            IN  /\ e.id = "1"
                /\ e.id \notin DOMAIN sync.db_keys
                /\ e.dataLimit # <<>>
                /\ \E j \in RowsOf(keys, e.id) :
                        keys[j].user_id = -1 /\ keys[j].data_limit = e.dataLimit[1]

\* C15: no two rows of the store have the same key id, whatever the
\* interleaving of two passes, or of a pass and a create.
C15_KeyIdUnique ==
    \A i, j \in DOMAIN keys : keys[i].key_id = keys[j].key_id => i = j

\* the workers that took a text of actor u as the input of the pending flow
\* and have sent its request to the server
Dispatched(u) ==
    {w \in Workers : threads[w].u = u /\ threads[w].pc \in {"save", "finish"}}

\* C16: of two texts an actor sends after one flow start, at most one is
\* consumed as the flow's input and dispatches the operation.
C16_FlowConsumedAtMostOnce ==
    \A u \in Actors : Cardinality(Dispatched(u)) <= 1

\* C17: after the cancel button of a prompt (back_to_main for the key name
\* prompt, key_<id> for the limit and date prompts of key <id>) the actor
\* has no pending flow.
C17_CancelAbandonsFlow ==
    /\ last.h = "back_to_main" => StateOf(user_states, last.u) = ""
    /\ last.h = "key_info" =>
            ~(/\ StateOf(user_states, last.u) \in {"waiting_for_limit", "waiting_for_date"}
              /\ user_states[last.u].key_id = last.k)

\* the caps of the rows, in rowid order
Caps(ks) == [i \in DOMAIN ks |-> ks[i].data_limit]

\* C18: a create whose remote call failed adds and changes no row; a cap
\* whose remote call reported failure leaves the local caps as they were;
\* and a row is added or a cap changed only by a handler whose remote call
\* has succeeded.
C18_RemoteFirst ==
    [][/\ (last'.h = "key_name" /\ ~calls'[1].ok) => keys' = keys
       /\ (last'.h = "limit" /\ replies'[1] # "data_limit_set") => keys' = keys
       /\ (Len(keys') # Len(keys) \/ Caps(keys') # Caps(keys))
            => (calls' # <<>> /\ calls'[1].ok)]_vars

\* a create failed at the server while the store held a row
C18_Witness ==
    /\ last.h = "key_name"
    /\ ~calls[1].ok
    /\ replies = <<"error", "welcome">>
    /\ keys # <<>>

\* actor u holds elevated tier
Elevated(us, u) == u \in ADMIN_IDS \/ (u \in DOMAIN us /\ us[u].is_admin)

\* C19: a delete requested by someone who neither owns the key nor holds
\* elevated tier, or for a key id without a row, sends no request to the
\* server and leaves the store as it was.
C19_DeleteAuthorisation ==
    [][(/\ last'.h = "delete"
        /\ \/ ~HasRow(keys, last'.k)
           \/ /\ ~Elevated(users, last'.u)
              /\ \A i \in RowsOf(keys, last'.k) : keys[i].user_id # last'.u)
        => /\ calls' = <<>>
           /\ keys' = keys
           /\ users' = users
           /\ remote' = remote]_vars

\* the standard user asked to delete the administrator's key and was refused
C19_Witness ==
    /\ last.h = "delete"
    /\ ~Elevated(users, last.u)
    /\ \E i \in RowsOf(keys, last.k) : keys[i].user_id \in ADMIN_IDS
    /\ replies = <<"not_admin">>
    /\ calls = <<>>

\* C20: a cap request is sent to the server, and an expiry date is written,
\* only for an actor who holds elevated tier when the value is handled.
C20_ElevatedOnly ==
    [][((last'.h = "limit" /\ calls' # <<>>) \/ (last'.h = "date" /\ keys' # keys))
            => Elevated(users, last'.u)]_vars

\* the limit flow reported success for a key that has a local row
CapSet ==
    /\ last.h = "limit"
    /\ replies # <<>>
    /\ replies[1] = "data_limit_set"
    /\ HasRow(keys, last.k)

\* C21: once the limit flow has reported success for b bytes, the local row
\* of the key holds b as its cap.
C21_LocalCapFollows ==
    CapSet => get_key_by_id(keys, last.k).data_limit = calls[1].bytes

\* C22: once a well-formed date not before the current instant has been
\* submitted for a key that has a row, the row's paid_until is the instant of
\* that date.
C22_ExpiryStored ==
    (last.h = "date" /\ LastDate.ok /\ LastDate.at >= now /\ HasRow(keys, last.k))
        => get_key_by_id(keys, last.k).paid_until = LastDate.at

\* what get_key_data_usage finds for the key of the last view
ViewUsage == get_key_data_usage(last.k, view.transfer, view.metrics, view.key_info)

\* C23: a key view whose cap read failed shows the cap stored in the local
\* row next to the usage the server reports; a view whose usage reads all
\* failed shows usage 0 next to the server's cap.
C23_DegradedView ==
    /\ (view.shown /\ ~view.readOk)
            => view.line = format_key_info_local(get_key_by_id(keys, last.k), remote,
                                                 FALSE, ViewUsage)
    /\ (view.shown /\ view.readOk /\ ~view.transfer.ok /\ ~view.metrics.ok
                /\ ~view.key_info.ok)
            => view.line = format_key_info(get_key_by_id(keys, last.k), remote,
                                           TRUE, ZeroBytes)

\* the cap a verifying read has to find for the request before it
Expected == IF calls[1].op = "PUT_limit" THEN calls[1].bytes ELSE ZeroBytes

\* C24: once the server has accepted the mutating request, the limit flow
\* reports an error both when the verifying read finds another cap than the
\* one requested and when the verifying read fails, and the only request
\* after the mutating one is that read.
C24_VerificationOutcome ==
    (last.h = "limit" /\ Len(calls) >= 2) =>
        /\ Len(calls) = 2
        /\ calls[2].op = "GET_key"
        /\ (~calls[2].ok \/ calls[2].bytes # Expected) => replies[1] = "error"

\* the last key view read the usage of its key, and report holds a value
\* for that key
Holds(report) == report.ok /\ \E p \in report.byId : p[1] = last.k
Held(report) == {p[2] : p \in {q \in report.byId : q[1] = last.k}}
InlineHeld ==
    IF ~view.key_info.ok THEN {}
    ELSE IF view.key_info.usageBytes # <<>> THEN {view.key_info.usageBytes[1]}
    ELSE IF view.key_info.usage # <<>> THEN {view.key_info.usage[1]}
    ELSE {}

\* C25: the usage a key view reads is the value of the first of
\* /metrics/transfer, /metrics and the key's own record that holds one for
\* the key, a failed or silent source being skipped, and 0 when none does.
C25_UsageSourceOrder ==
    (view.shown /\ view.readOk) =>
        IF Holds(view.transfer) THEN view.data_usage \in Held(view.transfer)
        ELSE IF Holds(view.metrics) THEN view.data_usage \in Held(view.metrics)
        ELSE IF InlineHeld # {} THEN view.data_usage \in InlineHeld
        ELSE view.data_usage = ZeroBytes

\* /metrics/transfer and /metrics both hold a value for the key, and the
\* view shows the one of /metrics/transfer
C25_Witness ==
    /\ view.shown
    /\ view.readOk
    /\ Holds(view.transfer)
    /\ Holds(view.metrics)
    /\ view.data_usage = <<1234, 567890>>
    /\ view.line = <<12>>

\* C26: a limit of 0 bytes is sent as the removal of the limit and never as
\* a PUT, a limit of b > 0 bytes as a PUT carrying b, and the mutating
\* request is the only one before the verifying read.
C26_ZeroClearsCap ==
    (last.h = "limit" /\ calls # <<>>) =>
        /\ calls[1].bytes = limit_bytes_of(float(last.t))
        /\ calls[1].bytes = ZeroBytes <=> calls[1].op = "DELETE_limit"
        /\ calls[1].bytes # ZeroBytes <=> calls[1].op = "PUT_limit"
        /\ \A i \in 2..Len(calls) : i = 2 /\ calls[i].op = "GET_key"

\* a limit of 0 bytes went out as a removal, and the read followed
C26_Witness ==
    /\ last.h = "limit"
    /\ Len(calls) = 2
    /\ calls[1].bytes = ZeroBytes
    /\ calls[1].op = "DELETE_limit"
    /\ calls[1].ok

\* C27: a limit text that is not a number, or is a number <= 0, sends
\* nothing to the server and changes neither the server's keys nor a row.
C27_NonPositiveRejected ==
    [][(last'.h = "limit" /\ (~float(last'.t).ok \/ float(last'.t).mant <= 0))
            => /\ calls' = <<>>
               /\ replies' = <<"invalid_limit">>
               /\ remote' = remote
               /\ keys' = keys]_vars

\* the text "0" was refused for a key that has a row and a server record
C27_Witness ==
    /\ last.h = "limit"
    /\ last.t = "0"
    /\ HasRow(keys, last.k)
    /\ last.k \in DOMAIN remote
    /\ replies = <<"invalid_limit">>

\* the buttons that start a flow, the state each leaves and the prompt it sends
FlowStarts == {"create_key", "set_limit", "set_paid"}
Kind(h) ==
    CASE h \in {"create_key", "key_name"} -> "waiting_for_key_name"
      [] h \in {"set_limit", "limit"} -> "waiting_for_limit"
      [] h \in {"set_paid", "date"} -> "waiting_for_date"
Prompt(h) ==
    CASE h = "create_key" -> "enter_key_name"
      [] h = "set_limit" -> "input_limit"
      [] h = "set_paid" -> "input_date"

\* C28: a flow start leaves the actor with exactly the new flow (kind, key,
\* chat, anchor of a prompt), whatever flow was pending, and sends nothing
\* to the server and changes no row; a text is consumed by the handler of
\* the pending flow's kind and touches the pending flow's key only.
C28_FlowReplacement ==
    [][/\ (last'.h \in FlowStarts /\ replies' = <<Prompt(last'.h)>>)
            => /\ DOMAIN user_states' = DOMAIN user_states \cup {last'.u}
               /\ user_states'[last'.u].state = Kind(last'.h)
               /\ user_states'[last'.u].key_id = last'.k
               /\ user_states'[last'.u].chat_id = last'.u
               /\ user_states'[last'.u].message_id \in AnchorIds
               /\ calls' = <<>>
               /\ keys' = keys
               /\ remote' = remote
       /\ last'.h \in FlowHandlers
            => /\ StateOf(user_states, last'.u) = Kind(last'.h)
               /\ last'.h # "key_name"
                    => /\ last'.k = user_states[last'.u].key_id
                       /\ \A i \in DOMAIN calls' : calls'[i].key = last'.k
                       /\ \A id \in DOMAIN remote \ {last'.k} :
                            id \in DOMAIN remote' /\ remote'[id] = remote[id]
               /\ \A i \in DOMAIN keys :
                    keys[i].key_id # last'.k => (i \in DOMAIN keys' /\ keys'[i] = keys[i])]_vars

\* a limit flow started over a pending flow took the next text for its own
\* key "1": every limit flow of SpecFlow starts over a pending flow
C28_Witness ==
    /\ last.h = "limit"
    /\ last.k = "1"
    /\ calls # <<>>
    /\ calls[1].op = "PUT_limit"
    /\ calls[1].key = "1"
    /\ calls[1].ok

\* C29: a step handled for one actor leaves every other actor's flow entry
\* as it was, and a text is consumed according to the sender's own entry:
\* by the handler of its state, or as an unknown message when there is none.
C29_ActorPartition ==
    [][/\ \A b \in Actors \ {last'.u} :
            /\ b \in DOMAIN user_states' <=> b \in DOMAIN user_states
            /\ b \in DOMAIN user_states => user_states'[b] = user_states[b]
       /\ last'.h \in FlowHandlers => StateOf(user_states, last'.u) = Kind(last'.h)
       /\ last'.h = "unknown" => StateOf(user_states, last'.u) = ""]_vars

\* actor 1's limit text was consumed and cleared actor 1's entry while
\* actor 2's key name flow stayed pending
C29_Witness ==
    /\ last.h = "limit"
    /\ last.u = 1
    /\ replies # <<"invalid_limit">>
    /\ StateOf(user_states, 1) = ""
    /\ StateOf(user_states, 2) = "waiting_for_key_name"

\* the row without its cap
Uncapped(row) == [row EXCEPT !.data_limit = ZeroBytes]

\* C30: a reconciliation pass leaves every row that was there before it in
\* place with its owner, name, connection descriptor, expiry and creation
\* instant, whatever the listing reports for its key; only data_limit may
\* differ.
C30_ReconciliationFrame ==
    [][last'.h = "all_keys"
            => \A i \in DOMAIN keys :
                    /\ i \in DOMAIN keys'
                    /\ Uncapped(keys'[i]) = Uncapped(keys[i])]_vars

\* a pass completed over a key whose row holds another name than the
\* server's and the actor as owner, and whose cap the pass has just set
C30_Witness ==
    /\ last.h = "all_keys"
    /\ sync.completed
    /\ \E i \in DOMAIN keys :
            /\ keys[i].key_id \in DOMAIN sync.db_keys
            /\ keys[i].key_id \in DOMAIN remote
            /\ keys[i].name # sync_key_name([id |-> keys[i].key_id,
                                             name |-> remote[keys[i].key_id].name])
            /\ keys[i].user_id = 1
            /\ keys[i].data_limit # sync.db_keys[keys[i].key_id]

\* C31: every row of access_keys has an owner for whom a row of users exists.
C31_OwnerExists ==
    \A i \in DOMAIN keys : keys[i].user_id \in DOMAIN users

\* the requests of the last handler that change the server
Mutating == {i \in DOMAIN calls : calls[i].op # "GET_key"}

\* C32: a text consumed by a flow, or a press of a delete button, sends at
\* most one mutating request, of the kind of the action, and a request that
\* failed is followed by no request at all.
C32_AtMostOneAttempt ==
    /\ Cardinality(Mutating) <= 1
    /\ \A i \in Mutating :
            /\ i = 1
            /\ last.h = "key_name" => calls[i].op = "POST_key"
            /\ last.h = "limit" => calls[i].op \in {"PUT_limit", "DELETE_limit"}
            /\ last.h = "delete" => calls[i].op = "DELETE_key"
            /\ ~calls[i].ok => Len(calls) = 1

\* a limit request the server refused, answered with the error message
C32_Witness ==
    /\ last.h = "limit"
    /\ calls # <<>>
    /\ calls[1].op = "PUT_limit"
    /\ ~calls[1].ok
    /\ Len(calls) = 1
    /\ replies[1] = "error"

\* POST /access-keys failed in the key name flow, or set_data_limit returned
\* False in the limit flow
WriteFailed ==
    \/ last.h = "key_name" /\ ~calls[1].ok
    \/ last.h = "limit" /\ calls # <<>> /\ (~calls[1].ok \/ replies[1] = "error")

\* C33: when POST /access-keys fails in the key name flow, or the limit
\* flow reports a failure of set_data_limit, the error message is sent once
\* and the actor has no flow entry afterwards.
C33_IdleAfterWriteFailure ==
    WriteFailed
        => /\ Cardinality({i \in DOMAIN replies : replies[i] = "error"}) = 1
           /\ replies[1] = "error"
           /\ StateOf(user_states, last.u) = ""

\* POST /access-keys failed, the error was sent and the actor is idle
C33_Witness ==
    /\ last.h = "key_name"
    /\ ~calls[1].ok
    /\ replies = <<"error", "welcome">>
    /\ last.u \notin DOMAIN user_states

\* the label the pass makes from a key id
Label(key_id) == "Key_" \o key_id

\* the worker whose pass files, in this step, a key its snapshot lacks
Files(w) ==
    /\ threads[w].pc = "loop"
    /\ threads'[w] # threads[w]
    /\ threads[w].server_keys # <<>>
    /\ Head(threads[w].server_keys).id \notin DOMAIN threads[w].db_keys
    /\ Len(keys') = Len(keys) + 1

C35_UnknownCapKept ==
    [][(last'.h = "all_keys" /\ sync'.ok) =>
        \A i \in DOMAIN keys :
            /\ i \in DOMAIN keys'
            /\ \A n \in DOMAIN sync'.server_keys :
                    LET e == sync'.server_keys[n]
                    IN  (e.id = keys[i].key_id /\ e.id \in DOMAIN remote
                            /\ remote[e.id].limit # <<>> /\ e.dataLimit = <<>>)
                                => keys'[i].data_limit = keys[i].data_limit
            /\ keys'[i].data_limit # keys[i].data_limit
                    => \E n \in DOMAIN sync'.server_keys :
                            LET e == sync'.server_keys[n]
                            IN  /\ e.id = keys[i].key_id
                                /\ e.id \in DOMAIN remote
                                /\ (remote[e.id].limit # <<>> => e.dataLimit # <<>>)
                                /\ keys'[i].data_limit = sync_data_limit(e)]_vars

\* C36: after a pass whose listing succeeded, every listed key with a decimal
\* id has a row and its rows hold the cap the listing reports, wherever a key
\* the pass cannot file stands in the listing.
C36_BadKeyIsolated ==
    (last.h = "all_keys" /\ sync.ok) =>
        \A n \in DOMAIN sync.server_keys :
            LET e == sync.server_keys[n]
            IN  IsNumeric(e.id) =>
                    /\ HasRow(keys, e.id)
                    /\ \A j \in RowsOf(keys, e.id) : keys[j].data_limit = sync_data_limit(e)

\* C37: a limit text the flow accepts (a number above 0) reaches the server
\* as a PUT that carries more than 0 bytes, never as the removal of the limit.
C37_AcceptedNeverRemoves ==
    (last.h = "limit" /\ calls # <<>>) =>
        /\ float(last.t).ok
        /\ float(last.t).mant > 0
        /\ calls[1].op = "PUT_limit"
        /\ BigPositive(calls[1].bytes)

\* the requester of the key view owns the key asked for, or holds elevated tier
Entitled(ks, us, u, k) ==
    /\ HasRow(ks, k)
    /\ Elevated(us, u) \/ \E i \in RowsOf(ks, k) : ks[i].user_id = u

\* C38: the key view is built only for a requester who owns the key or holds
\* elevated tier when asking; for anyone else, and for a key id without a
\* row, nothing is shown, nothing is read from the server, and neither the
\* store nor the server changes.
C38_DetailsPrivate ==
    [][last'.h = "key_info" =>
        /\ view'.shown => Entitled(keys, users, last'.u, last'.k)
        /\ ~Entitled(keys, users, last'.u, last'.k) =>
                /\ view' = NoView
                /\ replies' \in {<<"key_not_found">>, <<"not_admin">>}
                /\ calls' = <<>>
                /\ keys' = keys
                /\ remote' = remote]_vars

\* a standard user who has a key asked for the administrator's key and was
\* shown nothing
C38_Witness ==
    /\ last.h = "key_info"
    /\ ~Elevated(users, last.u)
    /\ \E i \in DOMAIN keys : keys[i].user_id = last.u
    /\ \E i \in RowsOf(keys, last.k) : keys[i].user_id \in ADMIN_IDS
    /\ replies = <<"not_admin">>
    /\ view = NoView

\* the kinds of a pending flow
FlowKinds == {"waiting_for_key_name", "waiting_for_limit", "waiting_for_date"}

\* C39: every pending flow has one of the three kinds and the chat and
\* message of its prompt; a limit or date flow names a key, a key name flow
\* names none; and an entry appears or changes only through a flow start of
\* its actor, with the kind of that button and the key id that button named.
C39_FlowWellFormed ==
    [][\A u \in DOMAIN user_states' :
        LET f == user_states'[u]
        IN  /\ f.state \in FlowKinds
            /\ f.chat_id = u
            /\ f.message_id \in AnchorIds
            /\ f.state = "waiting_for_key_name" => f.key_id = ""
            /\ f.state \in {"waiting_for_limit", "waiting_for_date"} => f.key_id \in IssuedIds
            /\ (u \notin DOMAIN user_states \/ user_states[u] # f)
                    => /\ last'.h \in FlowStarts
                       /\ last'.u = u
                       /\ f.state = Kind(last'.h)
                       /\ f.key_id = last'.k]_vars

\* the administrator's limit flow for the second key replaced a pending flow
\* while the standard user's key name flow waits
C39_Witness ==
    /\ last.h = "set_limit"
    /\ last.k = "1"
    /\ last.u \in DOMAIN user_states
    /\ user_states[last.u] = Flow("waiting_for_limit", "1", last.u, 2)
    /\ \E u \in DOMAIN user_states : user_states[u].state = "waiting_for_key_name"

\* C6: every row reconciliation inserted is owned by a strictly negative
\* identity, so by no real actor.
C6_PlaceholderNegative ==
    \A i \in DOMAIN keys : keys[i].user_id \notin Actors => keys[i].user_id < 0

\* C7: after a pass, every key that had a row before the pass and is in the
\* listing carries locally the cap the listing reports for it.
C7_CapDriftCorrection ==
    PassCompleted =>
        \A i \in DOMAIN sync.server_keys :
            LET e == sync.server_keys[i]
            IN  e.id \in DOMAIN sync.db_keys =>
                    \A j \in RowsOf(keys, e.id) :
                        keys[j].data_limit =
                            (IF e.dataLimit # <<>> THEN e.dataLimit[1] ELSE ZeroBytes)

\* a pass found a local cap different from the reported one and replaced it
C7_Witness ==
    /\ PassCompleted
    /\ \E i \in DOMAIN sync.server_keys :
            LET e == sync.server_keys[i]
            IN  /\ e.id \in DOMAIN sync.db_keys
                /\ e.dataLimit # <<>>
                /\ sync.db_keys[e.id] # e.dataLimit[1]
                /\ \E j \in RowsOf(keys, e.id) :
                        keys[j].user_id \in Actors /\ keys[j].data_limit = e.dataLimit[1]

====
